---- MODULE Spec2Model ----
(***************************************************************************)
(* Model of src/src/utils/downloader.py: the Downloader class, and of its  *)
(* callers GeoTiffHandler (src/src/handlers/geotiff.py) and LayersFetch     *)
(* (src/src/fetch.py).                                                      *)
(*                                                                         *)
(* One Downloader instance talks to one server that holds a resource of    *)
(* `length` bytes.  A caller invokes asyncstart() (start() runs the same   *)
(* coroutine to completion on the event loop) or download() directly.  The *)
(* coroutines of one invocation are cooperative asyncio tasks: every       *)
(* `await` of the source is a point where sibling tasks may run, so every  *)
(* action below is the code between two awaits of one task.                *)
(*                                                                         *)
(* Bytes: the byte of the resource at offset k has value k + 1, the        *)
(* zero fill of the pre-sizing step is 0, and content the file held before *)
(* the Downloader was used is OldByte.  A file is the sequence of its      *)
(* bytes, offset k being index k + 1.                                      *)
(***************************************************************************)
EXTENDS Integers, Sequences, FiniteSets, Bags, TLC

\* ---- bounds of the model ------------------------------------------------
MaxLen == 3
MaxThreads == 2
MaxRuns == 2
MaxLayers == 2

\* byte value standing for content that was in the file before any download:
\* it differs from the zero fill and from every byte of the resource
OldByte == MaxLen + 1

VARIABLES
    supplied,      \* a session was passed to Downloader.__init__
    threads,       \* self.threads
    new_session,   \* self.new_session
    closed,        \* self.session.closed
    closeCalls,    \* number of times self.session.close() was invoked
    aiohttp_args,  \* self.aiohttp_args: method, and the Range header if any
    length,        \* size of the resource on the server
    file,          \* bytes of the destination file on disk
    run,           \* number of invocations of an entry point so far
    entry,         \* entry point of the current invocation
    apc,           \* position of asyncstart()
    dpc,           \* position of download()
    path,          \* branch download() took after the probe
    presized,      \* download() of this invocation has pre-sized the file
    ranges,        \* local variable `ranges` of download()
    workers,       \* the fetch() tasks handed to asyncio.gather, in order
    fb,            \* download_single_threaded(): bytes of the body written
    error,         \* exception that ended download(), "none" if none
    requests,      \* bag of the requests the current invocation has issued
    progress_bar,  \* self.progress_bar
    reported,      \* bytes passed to progress.update() by this invocation
    prev,          \* how the previous invocation ended (recorded by SpecRerun)
    \* GeoTiffHandler
    hpc,           \* position of handle() and of the step it is running
    dstatus,       \* local variable `status` of _download(), 0 while unset
    hexc,          \* an exception is propagating out of _download()
    hsteps,        \* the steps handle() has run to their end, with the
                   \* status each returned (0: it raised)
    hret,          \* return value of handle(), 0 while it has not returned
    \* GeoJSONHandler
    jpc,           \* position of handle()
    jret,          \* return value of handle(), 0 while it has not returned
    \* LayersFetch
    layers,        \* asset types of the layers of the theme, in order
    lpc,           \* position of fetch()
    lidx,          \* index of the layer the loop of fetch() is at
    lstatus,       \* local variable `status` of fetch()
    lret,          \* return value of fetch(), 0 while it has not returned
    llog,          \* one record per layer whose request fetch() has issued
    lexc           \* index of the layer at which an exception was raised

gt == <<hpc, dstatus, hexc, hsteps, hret>>
gj == <<jpc, jret>>
lf == <<layers, lpc, lidx, lstatus, lret, llog, lexc>>

\* the state of the callers of the Downloader
outer == <<gt, gj, lf>>

vars == <<supplied, threads, new_session, closed, closeCalls, aiohttp_args,
          length, file, run, entry, apc, dpc, path, presized, ranges, workers,
          fb, error, requests, progress_bar, reported, prev, gt, gj, lf>>

config == <<supplied, threads, new_session, length, progress_bar>>

\* ---- helpers ------------------------------------------------------------
Max(a, b) == IF a >= b THEN a ELSE b
Min(a, b) == IF a <= b THEN a ELSE b

\* the resource held by the server: `length` bytes, offset k holds k + 1
Resource == [j \in 1..length |-> j]

\* b"\0" * n
Zeros(n) == [j \in 1..n |-> 0]

\* NoRange: the request options carry no Range header
NoRange == <<>>

\* Body the server sends for a request whose Range header is r:
\* the bytes start..end of the resource clipped at the resource end, and
\* the whole resource when the request carries no Range header.
ServerBody(r) ==
    IF r = NoRange THEN Resource
    ELSE LET lo == r[1]
             hi == Min(r[2], length - 1)
         IN  IF hi < lo THEN <<>> ELSE [j \in 1..(hi - lo + 1) |-> lo + j]

\* fileobj.write(data) at file position pos: bytes between the old end of
\* file and pos read as zero.
WriteAt(f, pos, data) ==
    LET n == Max(Len(f), pos + Len(data))
    IN  [j \in 1..n |->
            IF j > pos /\ j <= pos + Len(data) THEN data[j - pos]
            ELSE IF j <= Len(f) THEN f[j]
            ELSE 0]

\* an open that keeps the content of the file (mode "r+b")
OpenKeep(f) == f

\* aiofiles.open(self.file, "wb"): mode "w" truncates the file to length 0
OpenWb(f) == <<>>

\* the loop of download() that appends the first threads - 1 ranges
RECURSIVE PlanLoop(_, _, _, _)
PlanLoop(n, start, base, acc) ==
    IF n = 0 THEN [ranges |-> acc, start |-> start]
    ELSE PlanLoop(n - 1, start + base, base,
                  Append(acc, <<start + 1, start + base>>))

\* Partition with the thread count clamped to the byte count
PartitionClamped(len, n) ==
    LET m == Min(n, Max(len, 1))
        base == len \div m
        r == PlanLoop(m - 1, -1, base, <<>>)
    IN  Append(r.ranges, <<r.start + 1, len>>)

\* Partition whose last range starts one byte early
PartitionOverlap(len, n) ==
    LET base == len \div n
        r == PlanLoop(n - 1, -1, base, <<>>)
    IN  Append(r.ranges, <<r.start, len>>)

\* Partition with base rounded up instead of down
PartitionCeil(len, n) ==
    LET base == (len + n - 1) \div n
        r == PlanLoop(n - 1, -1, base, <<>>)
    IN  Append(r.ranges, <<r.start + 1, len>>)

\* Partition whose last range ends at the last byte of the resource
PartitionInclusive(len, n) ==
    LET base == len \div n
        r == PlanLoop(n - 1, -1, base, <<>>)
    IN  Append(r.ranges, <<r.start + 1, len - 1>>)

\* range planning of download(): base = int(length / threads)
Partition(len, n) ==
    LET base == len \div n
        r == PlanLoop(n - 1, -1, base, <<>>)
    IN  Append(r.ranges, <<r.start + 1, len>>)

\* a request issued on the session: its method, its Range header, and the
\* code that issued it (probe, fetch or fallback)
Request(method, by, range) ==
    [method |-> method, by |-> by, Range |-> range]

\* the request options when construction has finished: the default
\* {"method": "GET"}, no headers
InitArgs == [method |-> "GET", Range |-> NoRange]

\* SetRange keeping a Range header that is already present (setdefault)
SetRangeKeep(args, filerange) ==
    IF args.Range = NoRange THEN [args EXCEPT !.Range = filerange] ELSE args

\* self.aiohttp_args["headers"]["Range"] = f"bytes={filerange[0]}-{filerange[1]}"
SetRange(args, filerange) == [args EXCEPT !.Range = filerange]

\* ProbeArgs without the forced method
ProbeArgsKeep(args) == args

\* temp_args = self.aiohttp_args.copy(); temp_args["method"] = "HEAD"
ProbeArgs(args) == [args EXCEPT !.method = "HEAD"]

\* Update counting chunks instead of bytes
UpdateChunks(total, n) == IF progress_bar THEN total + 1 ELSE total

\* progress.update(n), called only when progress reporting is enabled
Update(total, n) == IF progress_bar THEN total + n ELSE total

\* the ranges handed to the fetch() tasks of this invocation, in order
Handed == [i \in DOMAIN workers |-> workers[i].filerange]

\* self.new_session with every session counted as supplied
NewSessionNever(session_supplied) == FALSE

\* __init__: if not session: self.new_session = True, else False
NewSession(session_supplied) == ~session_supplied

\* no earlier invocation, or one that raised
NoPrev == [ok |-> FALSE, path |-> "none", file |-> <<>>, handed |-> <<>>]

\* the outcome of the invocation that has just ended, as the next one finds
\* it: whether download() returned normally, the branch it took and the
\* file it left, and the ranges it handed to its fetch() tasks
Outcome ==
    IF dpc = "done"
    THEN [ok |-> TRUE, path |-> path, file |-> file, handed |-> Handed]
    ELSE [NoPrev EXCEPT !.handed = Handed]

Terminated ==
    \/ run = 0
    \/ entry = "download" /\ dpc \in {"done", "failed"}
    \/ entry = "asyncstart" /\ apc \in {"returned", "raised"}

WorkersFinished ==
    \A i \in DOMAIN workers : workers[i].pc \in {"done", "failed"}

\* ---- initial state: the state after Downloader.__init__ ----------------
Init ==
    /\ threads \in 1..MaxThreads
    /\ supplied \in BOOLEAN
    /\ new_session = NewSession(supplied)
    /\ closed = FALSE
    /\ closeCalls = 0
    /\ aiohttp_args = InitArgs
    /\ length \in 0..MaxLen
    /\ file \in {<<>>, [j \in 1..(MaxLen + 2) |-> OldByte]}
    /\ run = 0
    /\ entry = "none"
    /\ apc = "none"
    /\ dpc = "idle"
    /\ path = "none"
    /\ presized = FALSE
    /\ ranges = <<>>
    /\ workers = <<>>
    /\ fb = 0
    /\ error = "none"
    /\ requests = EmptyBag
    /\ progress_bar \in BOOLEAN
    /\ reported = 0
    /\ prev = NoPrev
    /\ hpc = "idle"
    /\ dstatus = 0
    /\ hexc = FALSE
    /\ hsteps = <<>>
    /\ hret = 0
    /\ jpc = "idle"
    /\ jret = 0
    /\ layers = <<>>
    /\ lpc = "idle"
    /\ lidx = 0
    /\ lstatus = 0
    /\ lret = 0
    /\ llog = <<>>
    /\ lexc = 0

\* ---- entry points -------------------------------------------------------
\* The caller invokes asyncstart() (e = "asyncstart"; start() is the same
\* coroutine run by loop.run_until_complete) or download() (e = "download").
\* download() runs up to its first await: it copies the request options,
\* forces the method to HEAD and issues the probe on the session.
\* The caller invokes again only once the previous invocation has ended and
\* the tasks it started have run to their end.
Call(e) ==
    /\ Terminated
    /\ WorkersFinished
    /\ run < MaxRuns
    /\ run' = run + 1
    /\ entry' = e
    /\ apc' = IF e = "asyncstart" THEN "download" ELSE "none"
    /\ dpc' = "probing"
    /\ path' = "none"
    /\ presized' = FALSE
    /\ ranges' = <<>>
    /\ workers' = <<>>
    /\ fb' = 0
    /\ error' = "none"
    /\ requests' = SetToBag({Request(ProbeArgs(aiohttp_args).method, "probe",
                                     ProbeArgs(aiohttp_args).Range)})
    /\ reported' = 0
    /\ UNCHANGED <<config, closed, closeCalls, aiohttp_args, file>>

\* ProbeRaise caught and answered with the single-stream fallback
ProbeRaiseFallsBack ==
    /\ dpc = "probing"
    /\ dpc' = "fallback"
    /\ requests' = requests (+)
           SetToBag({Request(aiohttp_args.method, "fallback",
                             aiohttp_args.Range)})
    /\ UNCHANGED <<config, outer, prev, reported, closed, closeCalls, aiohttp_args,
                   file, run, entry, apc, path, presized, ranges, workers, fb,
                   error>>

\* The probe fails: session.request raises (RuntimeError when the session
\* is closed, aiohttp.ClientError on a transport failure).
ProbeRaise ==
    /\ dpc = "probing"
    /\ dpc' = "failed"
    /\ error' = IF closed THEN "RuntimeError" ELSE "ClientError"
    /\ UNCHANGED <<config, outer, prev, reported, closed, closeCalls, aiohttp_args, file, run, entry,
                   apc, path, presized, ranges, workers, fb, requests>>

\* ProbeUnsized treating the missing header as a length: it goes on to
\* pre-size and plan
ProbeUnsizedPlans ==
    /\ dpc = "probing"
    /\ ~closed
    /\ dpc' = "presize"
    /\ path' = "fallback"
    /\ UNCHANGED <<config, outer, prev, reported, closed, closeCalls, aiohttp_args, file, run, entry,
                   apc, presized, ranges, workers, fb, error, requests>>

\* ProbeUnsized without the membership test: head.headers["Content-Length"]
\* raises KeyError
ProbeUnsizedKeyError ==
    /\ dpc = "probing"
    /\ ~closed
    /\ dpc' = "failed"
    /\ path' = "fallback"
    /\ error' = "KeyError"
    /\ UNCHANGED <<config, outer, prev, reported, closed, closeCalls, aiohttp_args, file, run, entry,
                   apc, presized, ranges, workers, fb, requests>>

\* The HEAD response has no Content-Length header: download() calls
\* download_single_threaded(), which issues its request with the request
\* options as they are.
ProbeUnsized ==
    /\ dpc = "probing"
    /\ ~closed
    /\ dpc' = "fallback"
    /\ path' = "fallback"
    /\ requests' = requests (+)
           SetToBag({Request(aiohttp_args.method, "fallback",
                             aiohttp_args.Range)})
    /\ UNCHANGED <<config, outer, prev, reported, closed, closeCalls, aiohttp_args, file, run, entry,
                   apc, presized, ranges, workers, fb, error>>

\* The HEAD response carries a Content-Length that is not a number:
\* int(head.headers["Content-Length"]) raises ValueError.
ProbeMalformed ==
    /\ dpc = "probing"
    /\ ~closed
    /\ dpc' = "failed"
    /\ path' = "malformed"
    /\ error' = "ValueError"
    /\ UNCHANGED <<config, outer, prev, reported, closed, closeCalls, aiohttp_args, file, run, entry,
                   apc, presized, ranges, workers, fb, requests>>

\* ProbeSized going straight to planning, the file left as it was
ProbeSizedNoPresize ==
    /\ dpc = "probing"
    /\ ~closed
    /\ dpc' = "plan"
    /\ path' = "sized"
    /\ UNCHANGED <<config, outer, prev, reported, closed, closeCalls, aiohttp_args, file, run, entry,
                   apc, presized, ranges, workers, fb, error, requests>>

\* The HEAD response carries Content-Length: length = int(...)
ProbeSized ==
    /\ dpc = "probing"
    /\ ~closed
    /\ dpc' = "presize"
    /\ path' = "sized"
    /\ UNCHANGED <<config, outer, prev, reported, closed, closeCalls, aiohttp_args, file, run, entry,
                   apc, presized, ranges, workers, fb, error, requests>>

\* async with aiofiles.open(self.file, "wb") as f: f.write(b"\0" * length)
PreSize ==
    /\ dpc = "presize"
    /\ file' = WriteAt(OpenWb(file), 0, Zeros(length))
    /\ presized' = TRUE
    /\ dpc' = "plan"
    /\ UNCHANGED <<config, outer, prev, reported, closed, closeCalls, aiohttp_args, run, entry, apc,
                   path, ranges, workers, fb, error, requests>>

\* Plan with the list of ranges kept on the instance: the ranges of the
\* earlier invocation are still in it
PlanAppends ==
    /\ dpc = "plan"
    /\ ranges' = prev.handed \o Partition(length, threads)
    /\ dpc' = "fanout"
    /\ UNCHANGED <<config, outer, prev, reported, closed, closeCalls, aiohttp_args, file, run, entry,
                   apc, path, presized, workers, fb, error, requests>>

\* the range computation of download()
Plan ==
    /\ dpc = "plan"
    /\ ranges' = Partition(length, threads)
    /\ dpc' = "fanout"
    /\ UNCHANGED <<config, outer, prev, reported, closed, closeCalls, aiohttp_args, file, run, entry,
                   apc, path, presized, workers, fb, error, requests>>

\* asyncio.gather(*[self.fetch(progress, filerange) for filerange in ranges])
Fanout ==
    /\ dpc = "fanout"
    /\ workers' = [i \in 1..Len(ranges) |->
                      [filerange |-> ranges[i], pc |-> "start", sent |-> 0,
                       req |-> NoRange]]
    /\ dpc' = "gather"
    /\ UNCHANGED <<config, outer, prev, reported, closed, closeCalls, aiohttp_args, file, run, entry,
                   apc, path, presized, ranges, fb, error, requests>>

\* ---- fetch(): one task per range ----------------------------------------
SetWorker(i, pc, sent) ==
    workers' = [workers EXCEPT ![i].pc = pc, ![i].sent = sent]

\* async with aiofiles.open(self.file, "wb") as fileobj
FetchOpen(i) ==
    /\ workers[i].pc = "start"
    /\ file' = OpenWb(file)
    /\ SetWorker(i, "opened", 0)
    /\ UNCHANGED <<config, outer, prev, reported, closed, closeCalls, aiohttp_args, run, entry, apc,
                   dpc, path, presized, ranges, fb, error, requests>>

\* fetch() sets the Range header in the shared request options and issues
\* its request: self.session.request(url=self.url, **self.aiohttp_args)
FetchRequest(i) ==
    /\ workers[i].pc = "opened"
    /\ aiohttp_args' = SetRange(aiohttp_args, workers[i].filerange)
    /\ requests' = requests (+)
           SetToBag({Request(aiohttp_args'.method, "fetch",
                             aiohttp_args'.Range)})
    /\ workers' = [workers EXCEPT ![i].pc = "streaming",
                                  ![i].req = aiohttp_args'.Range]
    /\ UNCHANGED <<config, outer, prev, reported, closed, closeCalls, file, run, entry, apc, dpc,
                   path, presized, ranges, fb, error>>

\* One chunk of k bytes of the response body arrives and is written at the
\* file object's position, which fileobj.seek(filerange[0]) set and every
\* write advances.
FetchWrite(i, k) ==
    /\ workers[i].pc = "streaming"
    /\ LET body == ServerBody(workers[i].filerange)
           sent == workers[i].sent
       IN  /\ k >= 1
           /\ sent + k <= Len(body)
           /\ file' = WriteAt(file, workers[i].filerange[1] + sent,
                              SubSeq(body, sent + 1, sent + k))
           /\ SetWorker(i, "streaming", sent + k)
    /\ reported' = Update(reported, k)
    /\ UNCHANGED <<config, outer, prev, closed, closeCalls, aiohttp_args, run, entry, apc,
                   dpc, path, presized, ranges, fb, error, requests>>

\* The body is exhausted: fetch() leaves both context managers and returns.
FetchDone(i) ==
    /\ workers[i].pc = "streaming"
    /\ workers[i].sent = Len(ServerBody(workers[i].filerange))
    /\ SetWorker(i, "done", workers[i].sent)
    /\ UNCHANGED <<config, outer, prev, reported, closed, closeCalls, aiohttp_args, file, run, entry,
                   apc, dpc, path, presized, ranges, fb, error, requests>>

\* The request or the stream raises: the exception leaves fetch() uncaught.
FetchRaise(i) ==
    /\ workers[i].pc = "streaming"
    /\ SetWorker(i, "failed", workers[i].sent)
    /\ UNCHANGED <<config, outer, prev, reported, closed, closeCalls, aiohttp_args, file, run, entry,
                   apc, dpc, path, presized, ranges, fb, error, requests>>

\* gather returning as soon as one task has returned (FIRST_COMPLETED)
GatherReturnFirst ==
    /\ dpc = "gather"
    /\ \E i \in DOMAIN workers : workers[i].pc = "done"
    /\ dpc' = "done"
    /\ UNCHANGED <<config, outer, prev, reported, closed, closeCalls, aiohttp_args, file, run, entry,
                   apc, path, presized, ranges, workers, fb, error, requests>>

\* await asyncio.gather(...) returns once every task has returned
GatherReturn ==
    /\ dpc = "gather"
    /\ \A i \in DOMAIN workers : workers[i].pc = "done"
    /\ dpc' = "done"
    /\ UNCHANGED <<config, outer, prev, reported, closed, closeCalls, aiohttp_args, file, run, entry,
                   apc, path, presized, ranges, workers, fb, error, requests>>

\* gather collecting the exceptions instead of raising them
\* (return_exceptions=True)
GatherSwallow ==
    /\ dpc = "gather"
    /\ \E i \in DOMAIN workers : workers[i].pc = "failed"
    /\ \A i \in DOMAIN workers : workers[i].pc \in {"done", "failed"}
    /\ dpc' = "done"
    /\ UNCHANGED <<config, outer, prev, reported, closed, closeCalls, aiohttp_args,
                   file, run, entry, apc, path, presized, ranges, workers, fb,
                   error, requests>>

\* await asyncio.gather(...) raises the first exception of a task as soon
\* as that task has failed; the sibling tasks are not cancelled.
GatherRaise ==
    /\ dpc = "gather"
    /\ \E i \in DOMAIN workers : workers[i].pc = "failed"
    /\ dpc' = "failed"
    /\ error' = "ClientError"
    /\ UNCHANGED <<config, outer, prev, reported, closed, closeCalls, aiohttp_args, file, run, entry,
                   apc, path, presized, ranges, workers, fb, requests>>

\* ---- download_single_threaded() ----------------------------------------
\* The response has arrived: async with aiofiles.open(self.file, "wb")
FallbackOpen ==
    /\ dpc = "fallback"
    /\ file' = OpenWb(file)
    /\ fb' = 0
    /\ dpc' = "fb_stream"
    /\ UNCHANGED <<config, outer, prev, reported, closed, closeCalls, aiohttp_args, run, entry, apc,
                   path, presized, ranges, workers, error, requests>>

\* One chunk of k bytes of the body is written after the bytes before it.
FallbackWrite(k) ==
    /\ dpc = "fb_stream"
    /\ LET body == ServerBody(aiohttp_args.Range)
       IN  /\ k >= 1
           /\ fb + k <= Len(body)
           /\ file' = WriteAt(file, fb, SubSeq(body, fb + 1, fb + k))
           /\ fb' = fb + k
    /\ reported' = Update(reported, k)
    /\ UNCHANGED <<config, outer, prev, closed, closeCalls, aiohttp_args, run, entry, apc,
                   dpc, path, presized, ranges, workers, error, requests>>

\* The body is exhausted: download_single_threaded() and download() return.
FallbackDone ==
    /\ dpc = "fb_stream"
    /\ fb = Len(ServerBody(aiohttp_args.Range))
    /\ dpc' = "done"
    /\ UNCHANGED <<config, outer, prev, reported, closed, closeCalls, aiohttp_args, file, run, entry,
                   apc, path, presized, ranges, workers, fb, error, requests>>

\* The request or the stream of the fallback raises.
FallbackRaise ==
    /\ dpc \in {"fallback", "fb_stream"}
    /\ dpc' = "failed"
    /\ error' = "ClientError"
    /\ UNCHANGED <<config, outer, prev, reported, closed, closeCalls, aiohttp_args, file, run, entry,
                   apc, path, presized, ranges, workers, fb, requests>>

\* ---- asyncstart() -------------------------------------------------------
\* AsyncstartReturn closing the session whoever owns it
AsyncstartReturnAlways ==
    /\ entry = "asyncstart"
    /\ apc = "download"
    /\ dpc = "done"
    /\ closed' = TRUE
    /\ closeCalls' = closeCalls + 1
    /\ apc' = "returned"
    /\ UNCHANGED <<config, outer, prev, reported, aiohttp_args, file, run, entry, dpc,
                   path, presized, ranges, workers, fb, error, requests>>

\* download() has returned: if self.new_session: await self.session.close()
AsyncstartReturn ==
    /\ entry = "asyncstart"
    /\ apc = "download"
    /\ dpc = "done"
    /\ closed' = (closed \/ new_session)
    /\ closeCalls' = IF new_session THEN closeCalls + 1 ELSE closeCalls
    /\ apc' = "returned"
    /\ UNCHANGED <<config, outer, prev, reported, aiohttp_args, file, run, entry, dpc, path, presized,
                   ranges, workers, fb, error, requests>>

\* download() has raised: the exception leaves asyncstart() at the await.
AsyncstartRaise ==
    /\ entry = "asyncstart"
    /\ apc = "download"
    /\ dpc = "failed"
    /\ apc' = "raised"
    /\ UNCHANGED <<config, outer, prev, reported, closed, closeCalls, aiohttp_args, file, run, entry,
                   dpc, path, presized, ranges, workers, fb, error, requests>>

Next ==
    \/ \E e \in {"asyncstart", "download"} : Call(e) /\ UNCHANGED <<prev, outer>>
    \/ ProbeRaise
    \/ ProbeUnsized
    \/ ProbeMalformed
    \/ ProbeSized
    \/ PreSize
    \/ Plan
    \/ Fanout
    \/ \E i \in DOMAIN workers : FetchOpen(i)
    \/ \E i \in DOMAIN workers : FetchRequest(i)
    \/ \E i \in DOMAIN workers : \E k \in 1..(MaxLen + 1) : FetchWrite(i, k)
    \/ \E i \in DOMAIN workers : FetchDone(i)
    \/ \E i \in DOMAIN workers : FetchRaise(i)
    \/ GatherReturn
    \/ GatherRaise
    \/ FallbackOpen
    \/ \E k \in 1..(MaxLen + 1) : FallbackWrite(k)
    \/ FallbackDone
    \/ FallbackRaise
    \/ AsyncstartReturn
    \/ AsyncstartRaise

Spec == Init /\ [][Next]_vars

\* The same program, with the outcome of each invocation recorded in `prev`
\* when the next invocation starts.
NextRerun ==
    \/ \E e \in {"asyncstart", "download"} :
          Call(e) /\ prev' = Outcome /\ UNCHANGED outer
    \/ Next /\ run' = run

SpecRerun == Init /\ [][NextRerun]_vars

\* ---- GeoTiffHandler ----------------------------------------------------
\* One GeoTiffHandler and the Downloader it constructed.  handle() is
\* invoked once; _download() drives the Downloader through asyncstart() and,
\* after a ValueError, download().

\* a step of handle() has ended: its name and the status it returned
Step(name, status) == [step |-> name, status |-> status]

\* handle() is invoked and runs _download() up to Path(...).is_file(): the
\* file exists, _download() returns 1 through its finally block
GT_Skip ==
    /\ hpc = "idle"
    /\ dstatus' = 1
    /\ hpc' = "finally"
    /\ UNCHANGED <<config, lf, gj, prev, reported, closed, closeCalls, aiohttp_args, file, run, entry,
                   apc, dpc, path, presized, ranges, workers, fb, error,
                   requests, hexc, hsteps, hret>>

\* the file does not exist: await self._downloader.asyncstart()
GT_Asyncstart ==
    /\ hpc = "idle"
    /\ file = <<>>
    /\ Call("asyncstart")
    /\ hpc' = "asyncstart"
    /\ UNCHANGED <<lf, gj, prev, dstatus, hexc, hsteps, hret>>

\* asyncstart() returned: status = 1
GT_AsyncstartReturned ==
    /\ hpc = "asyncstart"
    /\ apc = "returned"
    /\ dstatus' = 1
    /\ hpc' = "finally"
    /\ UNCHANGED <<config, lf, gj, prev, reported, closed, closeCalls, aiohttp_args, file, run, entry,
                   apc, dpc, path, presized, ranges, workers, fb, error,
                   requests, hexc, hsteps, hret>>

\* except ValueError: await self._downloader.download()
GT_ValueError ==
    /\ hpc = "asyncstart"
    /\ apc = "raised"
    /\ error = "ValueError"
    /\ Call("download")
    /\ hpc' = "retry"
    /\ UNCHANGED <<lf, gj, prev, dstatus, hexc, hsteps, hret>>

\* except Exception: status = -1
GT_Exception ==
    /\ hpc = "asyncstart"
    /\ apc = "raised"
    /\ error # "ValueError"
    /\ dstatus' = -1
    /\ hpc' = "finally"
    /\ UNCHANGED <<config, lf, gj, prev, reported, closed, closeCalls, aiohttp_args, file, run, entry,
                   apc, dpc, path, presized, ranges, workers, fb, error,
                   requests, hexc, hsteps, hret>>

\* the download() of the ValueError handler returned: status = 1
GT_RetryReturned ==
    /\ hpc = "retry"
    /\ dpc = "done"
    /\ dstatus' = 1
    /\ hpc' = "finally"
    /\ UNCHANGED <<config, lf, gj, prev, reported, closed, closeCalls, aiohttp_args, file, run, entry,
                   apc, dpc, path, presized, ranges, workers, fb, error,
                   requests, hexc, hsteps, hret>>

\* the download() of the ValueError handler raised: no except clause of the
\* try statement covers its own handlers, the exception propagates
GT_RetryRaised ==
    /\ hpc = "retry"
    /\ dpc = "failed"
    /\ hexc' = TRUE
    /\ hpc' = "finally"
    /\ UNCHANGED <<config, lf, gj, prev, reported, closed, closeCalls, aiohttp_args, file, run, entry,
                   apc, dpc, path, presized, ranges, workers, fb, error,
                   requests, dstatus, hsteps, hret>>

\* GT_Finally closing the session whenever the downloader owns it
GT_FinallyAlwaysCloses ==
    /\ hpc = "finally"
    /\ closed' = (closed \/ new_session)
    /\ closeCalls' = IF new_session THEN closeCalls + 1 ELSE closeCalls
    /\ hsteps' = Append(hsteps, Step("download", IF hexc THEN 0 ELSE dstatus))
    /\ hpc' = IF hexc THEN "raised" ELSE "downloaded"
    /\ UNCHANGED <<config, lf, gj, prev, reported, aiohttp_args, file, run, entry,
                   apc, dpc, path, presized, ranges, workers, fb, error,
                   requests, dstatus, hexc, hret>>

\* finally: if new_session and not session.closed: await session.close();
\* then _download() returns status, or the pending exception leaves it and
\* handle(), which has no try statement
GT_Finally ==
    /\ hpc = "finally"
    /\ closed' = (closed \/ new_session)
    /\ closeCalls' = IF new_session /\ ~closed THEN closeCalls + 1
                     ELSE closeCalls
    /\ hsteps' = Append(hsteps, Step("download", IF hexc THEN 0 ELSE dstatus))
    /\ hpc' = IF hexc THEN "raised" ELSE "downloaded"
    /\ UNCHANGED <<config, lf, gj, prev, reported, aiohttp_args, file, run, entry,
                   apc, dpc, path, presized, ranges, workers, fb, error,
                   requests, dstatus, hexc, hret>>

\* handle(): status = await self._download(); if status != 1: return -1
GT_Downloaded ==
    /\ hpc = "downloaded"
    /\ IF dstatus # 1
       THEN hpc' = "returned" /\ hret' = -1
       ELSE hpc' = "load" /\ hret' = hret
    /\ UNCHANGED <<config, lf, gj, prev, reported, closed, closeCalls, aiohttp_args, file, run, entry,
                   apc, dpc, path, presized, ranges, workers, fb, error,
                   requests, dstatus, hexc, hsteps>>

\* status = await self._load(); if status != 1: return -1.  _load() returns
\* 1, or -1 from its except Exception clause.
GT_Load(s) ==
    /\ hpc = "load"
    /\ hsteps' = Append(hsteps, Step("load", s))
    /\ IF s # 1
       THEN hpc' = "returned" /\ hret' = -1
       ELSE hpc' = "save" /\ hret' = hret
    /\ UNCHANGED <<config, lf, gj, prev, reported, closed, closeCalls, aiohttp_args, file, run, entry,
                   apc, dpc, path, presized, ranges, workers, fb, error,
                   requests, dstatus, hexc>>

\* status = await self._save(); if status != 1: return -1; return status
GT_Save(s) ==
    /\ hpc = "save"
    /\ hsteps' = Append(hsteps, Step("save", s))
    /\ hpc' = "returned"
    /\ hret' = IF s # 1 THEN -1 ELSE s
    /\ UNCHANGED <<config, lf, gj, prev, reported, closed, closeCalls, aiohttp_args, file, run, entry,
                   apc, dpc, path, presized, ranges, workers, fb, error,
                   requests, dstatus, hexc>>

\* The handler and its Downloader: the steps of the handler, and the steps
\* of the Downloader inside the invocations the handler makes.
NextGeoTiff ==
    \/ GT_Skip
    \/ GT_Asyncstart
    \/ GT_AsyncstartReturned
    \/ GT_ValueError
    \/ GT_Exception
    \/ GT_RetryReturned
    \/ GT_RetryRaised
    \/ GT_Finally
    \/ GT_Downloaded
    \/ \E s \in {1, -1} : GT_Load(s)
    \/ \E s \in {1, -1} : GT_Save(s)
    \/ Next /\ run' = run

SpecGeoTiff == Init /\ [][NextGeoTiff]_vars


\* ---- GeoJSONHandler ----------------------------------------------------
\* One GeoJSONHandler and the Downloader it constructed; handle() is
\* invoked once.

\* handle() up to its first await: await self._downloader.asyncstart()
GJ_Asyncstart ==
    /\ jpc = "idle"
    /\ Call("asyncstart")
    /\ jpc' = "asyncstart"
    /\ UNCHANGED <<lf, gt, prev, jret>>

\* asyncstart() returned; the conversion loop, which catches the exceptions
\* of each file, runs to its end: return 1
GJ_Converted ==
    /\ jpc = "asyncstart"
    /\ apc = "returned"
    /\ jpc' = "returned"
    /\ jret' = 1
    /\ UNCHANGED <<config, lf, gt, prev, reported, closed, closeCalls, aiohttp_args, file, run,
                   entry, apc, dpc, path, presized, ranges, workers, fb, error,
                   requests>>

\* except ValueError: await self._downloader.download()
GJ_ValueError ==
    /\ jpc = "asyncstart"
    /\ apc = "raised"
    /\ error = "ValueError"
    /\ Call("download")
    /\ jpc' = "retry"
    /\ UNCHANGED <<lf, gt, prev, jret>>

\* except Exception, entered when asyncstart() raised another exception or
\* when a statement after it did (mkdir, os.walk): the session is closed
\* if it is owned and still open; return -1
GJ_Exception ==
    /\ jpc = "asyncstart"
    /\ \/ apc = "raised" /\ error # "ValueError"
       \/ apc = "returned"
    /\ closed' = (closed \/ new_session)
    /\ closeCalls' = IF new_session /\ ~closed THEN closeCalls + 1
                     ELSE closeCalls
    /\ jpc' = "returned"
    /\ jret' = -1
    /\ UNCHANGED <<config, lf, gt, prev, reported, aiohttp_args, file, run,
                   entry, apc, dpc, path, presized, ranges, workers, fb, error,
                   requests>>

\* the download() of the ValueError handler returned:
\* if new_session: await session.close(); return 1
GJ_RetryReturned ==
    /\ jpc = "retry"
    /\ dpc = "done"
    /\ closed' = (closed \/ new_session)
    /\ closeCalls' = IF new_session THEN closeCalls + 1 ELSE closeCalls
    /\ jpc' = "returned"
    /\ jret' = 1
    /\ UNCHANGED <<config, lf, gt, prev, reported, aiohttp_args, file, run,
                   entry, apc, dpc, path, presized, ranges, workers, fb, error,
                   requests>>

\* the download() of the ValueError handler raised: the exception leaves
\* the except clause and handle(); the statements after the await are not
\* reached
GJ_RetryRaised ==
    /\ jpc = "retry"
    /\ dpc = "failed"
    /\ jpc' = "raised"
    /\ UNCHANGED <<config, lf, gt, prev, reported, closed, closeCalls, aiohttp_args, file, run,
                   entry, apc, dpc, path, presized, ranges, workers, fb, error,
                   requests, jret>>

NextGeoJson ==
    \/ GJ_Asyncstart
    \/ GJ_Converted
    \/ GJ_ValueError
    \/ GJ_Exception
    \/ GJ_RetryReturned
    \/ GJ_RetryRaised
    \/ Next /\ run' = run

SpecGeoJson == Init /\ [][NextGeoJson]_vars

\* ---- LayersFetch --------------------------------------------------------
\* One LayersFetch.fetch(theme).  A layer is given by the asset type its
\* STAC response names; the handler parse_response() constructs is seen
\* from outside: handle() returns 1 or -1, or raises.
Tiff == "image/tiff; application=geotiff"
GeoJson == "application/geo+json"
AssetTypes == {Tiff, GeoJson, "text/plain"}

\* the themes: lists of at most MaxLayers layers
Themes == UNION {[1..n -> AssetTypes] : n \in 0..MaxLayers}

\* the record of a layer whose request has been issued: whether
\* requests.get returned a response, whether that response has an HTTP
\* error status, the handler classes parse_response() constructed and
\* invoked for it, the status the handler returned (0: none yet) and what
\* parse_response() returned (0: nothing yet)
Layer(i, got, bad) ==
    [layer |-> i, response |-> got, bad |-> bad, handlers |-> <<>>,
     hstatus |-> 0, result |-> 0]

\* an exception reaches one of the except clauses of fetch(): return -1
Caught ==
    /\ lexc' = lidx
    /\ lret' = -1
    /\ lpc' = "returned"

\* the state after LayersFetch.__init__, no Downloader in use
InitFetch ==
    /\ supplied = FALSE
    /\ threads = 1
    /\ new_session = NewSession(supplied)
    /\ closed = FALSE
    /\ closeCalls = 0
    /\ aiohttp_args = InitArgs
    /\ length = 0
    /\ file = <<>>
    /\ run = 0
    /\ entry = "none"
    /\ apc = "none"
    /\ dpc = "idle"
    /\ path = "none"
    /\ presized = FALSE
    /\ ranges = <<>>
    /\ workers = <<>>
    /\ fb = 0
    /\ error = "none"
    /\ requests = EmptyBag
    /\ progress_bar = FALSE
    /\ reported = 0
    /\ prev = NoPrev
    /\ hpc = "idle"
    /\ dstatus = 0
    /\ hexc = FALSE
    /\ hsteps = <<>>
    /\ hret = 0
    /\ jpc = "idle"
    /\ jret = 0
    /\ layers \in Themes
    /\ lpc = "idle"
    /\ lidx = 0
    /\ lstatus = 0
    /\ lret = 0
    /\ llog = <<>>
    /\ lexc = 0

\* the variables of the Downloader and of GeoTiffHandler
inner == <<config, closed, closeCalls, aiohttp_args, file, run, entry, apc,
           dpc, path, presized, ranges, workers, fb, error, requests,
           reported, prev, gt, gj>>

\* fetch(theme): status = 0; the loop starts, or ends at once when the
\* theme has no layers
LF_Fetch ==
    /\ lpc = "idle"
    /\ lstatus' = 0
    /\ IF layers = <<>>
       THEN lpc' = "returned" /\ lret' = 0 /\ lidx' = lidx
       ELSE lpc' = "get" /\ lret' = lret /\ lidx' = 1
    /\ UNCHANGED <<inner, layers, llog, lexc>>

\* response = requests.get(...): a response arrives, with an error status
\* (4xx, 5xx) or not
LF_Get(bad) ==
    /\ lpc = "get"
    /\ llog' = Append(llog, Layer(lidx, TRUE, bad))
    /\ lpc' = "json"
    /\ UNCHANGED <<inner, layers, lidx, lstatus, lret, lexc>>

\* requests.get raises (ConnectionError, another RequestException)
LF_GetRaise ==
    /\ lpc = "get"
    /\ llog' = Append(llog, Layer(lidx, FALSE, FALSE))
    /\ Caught
    /\ UNCHANGED <<inner, layers, lidx, lstatus>>

\* response.json() raises, or the document lacks a key parse_response()
\* reads (KeyError)
LF_ParseRaise ==
    /\ lpc = "json"
    /\ Caught
    /\ UNCHANGED <<inner, layers, lidx, lstatus, llog>>

\* the handler class parse_response() constructs for an asset type,
\* GeoJSONHandler standing in for every type that is not GeoTIFF
HandlerOrJson(type) ==
    IF type = Tiff THEN <<"GeoTiffHandler">> ELSE <<"GeoJSONHandler">>

\* the handler class parse_response() constructs for an asset type
HandlerFor(type) ==
    IF type = Tiff THEN <<"GeoTiffHandler">>
    ELSE IF type = GeoJson THEN <<"GeoJSONHandler">>
    ELSE <<>>

\* parse_response(response.json()) up to its first await: it constructs the
\* handler of the asset type and invokes handle(), or returns -1
LF_Dispatch ==
    /\ lpc = "json"
    /\ IF HandlerFor(layers[lidx]) # <<>>
       THEN /\ llog' = [llog EXCEPT ![Len(llog)].handlers =
                            @ \o HandlerFor(layers[lidx])]
            /\ lpc' = "handle"
            /\ lstatus' = lstatus
       ELSE /\ llog' = [llog EXCEPT ![Len(llog)].result = -1]
            /\ lpc' = "check"
            /\ lstatus' = -1
    /\ UNCHANGED <<inner, layers, lidx, lret, lexc>>

\* handler.handle() returns s: parse_response() returns it, status = s
LF_HandlerReturn(s) ==
    /\ lpc = "handle"
    /\ llog' = [llog EXCEPT ![Len(llog)].hstatus = s,
                            ![Len(llog)].result = s]
    /\ lstatus' = s
    /\ lpc' = "check"
    /\ UNCHANGED <<inner, layers, lidx, lret, lexc>>

\* handler.handle() raises: the exception leaves parse_response()
LF_HandlerRaise ==
    /\ lpc = "handle"
    /\ Caught
    /\ UNCHANGED <<inner, layers, lidx, lstatus, llog>>

\* LF_Check going on to the next layer when the status check raises
LF_CheckRaiseSkips ==
    /\ lpc = "check"
    /\ llog[lidx].bad
    /\ lexc' = lidx
    /\ IF lidx < Len(layers)
       THEN lidx' = lidx + 1 /\ lpc' = "get" /\ lret' = lret
       ELSE lidx' = lidx /\ lpc' = "returned" /\ lret' = -1
    /\ UNCHANGED <<inner, layers, lstatus, llog>>

\* response.raise_for_status() raises HTTPError: the response has an error
\* status
LF_CheckRaise ==
    /\ lpc = "check"
    /\ llog[lidx].bad
    /\ Caught
    /\ UNCHANGED <<inner, layers, lidx, lstatus, llog>>

\* response.raise_for_status() returns: the loop goes to the next layer,
\* or ends and fetch() returns status
LF_Check ==
    /\ lpc = "check"
    /\ ~llog[lidx].bad
    /\ IF lidx < Len(layers)
       THEN lidx' = lidx + 1 /\ lpc' = "get" /\ lret' = lret
       ELSE lidx' = lidx /\ lpc' = "returned" /\ lret' = lstatus
    /\ UNCHANGED <<inner, layers, lstatus, llog, lexc>>

NextFetch ==
    \/ LF_Fetch
    \/ \E bad \in BOOLEAN : LF_Get(bad)
    \/ LF_GetRaise
    \/ LF_ParseRaise
    \/ LF_Dispatch
    \/ \E s \in {1, -1} : LF_HandlerReturn(s)
    \/ LF_HandlerRaise
    \/ LF_CheckRaise
    \/ LF_Check

SpecFetch == InitFetch /\ [][NextFetch]_vars

\* ---- properties ---------------------------------------------------------
\* download() of the current invocation has computed its ranges
Planned == path = "sized" /\ dpc \notin {"probing", "presize", "plan"}

\* download() of the current invocation has handed its tasks to gather
Launched == Planned /\ dpc # "fanout"

\* download() returned normally on the sized path
SizedSuccess == path = "sized" /\ dpc = "done"

\* the requests of the current invocation that were issued by `by`
IssuedBy(by) ==
    LET rs == {r \in BagToSet(requests) : r.by = by}
    IN  IF rs = {} THEN 0
        ELSE BagCardinality([r \in rs |-> CopiesIn(r, requests)])

\* C1: after a successful multi-range download the destination file has
\* size length and holds exactly the bytes of the resource, whatever the
\* thread count and the interleaving of the workers.
C1_ByteExact ==
    SizedSuccess => (Len(file) = length /\ file = Resource)

\* The file the code leaves when the fetch tasks run to completion one after
\* the other in range order, starting from file f.
RECURSIVE InRangeOrder(_, _, _)
InRangeOrder(f, rs, i) ==
    IF i > Len(rs) THEN f
    ELSE InRangeOrder(WriteAt(OpenWb(f), rs[i][1], ServerBody(rs[i])), rs, i + 1)

\* C2: for a fixed server and range plan, the final file contents after a
\* successful multi-range download are the same for every order of the
\* workers' steps: they equal the contents that one particular order (the
\* workers running one after the other in range order) produces.
C2_OrderIndependent ==
    SizedSuccess => file = InRangeOrder(Zeros(length), ranges, 1)

\* C3: a step of the fetch worker of range (start, end) neither changes the
\* length of the file nor any byte outside offsets start..end.
C3_FetchFrame ==
    [][\A i \in DOMAIN workers :
          (i \in DOMAIN workers' /\ workers'[i] # workers[i]) =>
             /\ Len(file') = Len(file)
             /\ \A j \in 1..Len(file) :
                   (j - 1 < workers[i].filerange[1]
                      \/ j - 1 > workers[i].filerange[2]) => file'[j] = file[j]
      ]_vars

\* C4: the sized path plans exactly `threads` ranges and hands gather exactly
\* one fetch task per range, in range order, also when threads > length.
C4_OneWorkerPerRange ==
    /\ Planned => Len(ranges) = threads
    /\ Launched =>
          /\ Len(workers) = threads
          /\ \A i \in 1..threads : workers[i].filerange = ranges[i]

C4_Witness ==
    /\ dpc = "gather"
    /\ threads > length
    /\ threads >= 2
    /\ Len(workers) = threads

\* the planned ranges that contain byte offset b
Covering(b) == {i \in DOMAIN ranges : ranges[i][1] <= b /\ b <= ranges[i][2]}

\* C5: the planned ranges are contiguous and non-overlapping: the first
\* starts at 0, each ends one byte before the next starts, the last ends at
\* length, and every offset of 0..length lies in exactly one range.
C5_Contiguous ==
    Planned =>
       /\ ranges # <<>>
       /\ ranges[1][1] = 0
       /\ \A i \in 1..(Len(ranges) - 1) : ranges[i][2] + 1 = ranges[i + 1][1]
       /\ ranges[Len(ranges)][2] = length
       /\ \A b \in 0..length : Cardinality(Covering(b)) = 1

C5_Witness ==
    /\ Planned
    /\ threads >= 2
    /\ length >= threads
    /\ length % threads # 0

\* C6: every planned range is well formed: start >= 0 and end >= start,
\* for every length >= 0 and thread count >= 1.
C6_WellFormed ==
    Planned =>
       \A i \in DOMAIN ranges : ranges[i][1] >= 0 /\ ranges[i][2] >= ranges[i][1]

\* the ranges in closed form, base = floor(len / n)
ClosedForm(len, n) ==
    LET base == len \div n
    IN  [i \in 1..n |->
            IF i < n THEN <<(i - 1) * base, i * base - 1>>
            ELSE <<(n - 1) * base, len>>]

\* C7: with base = floor(length / threads), range i of the first
\* threads - 1 ranges is (i*base, (i+1)*base - 1) and the last range is
\* ((threads-1)*base, length); 1000 bytes with 4 threads give
\* (0,249),(250,499),(500,749),(750,1000).
C7_ClosedForm ==
    /\ Planned => ranges = ClosedForm(length, threads)
    /\ Partition(1000, 4) = <<<<0, 249>>, <<250, 499>>, <<500, 749>>, <<750, 1000>>>>
    /\ Partition(1000, 1) = <<<<0, 1000>>>>

C7_Witness ==
    /\ Planned
    /\ threads >= 2
    /\ length > threads
    /\ length % threads # 0
    /\ ranges[Len(ranges)][2] - ranges[Len(ranges)][1] > length \div threads

C10_ClosedOnEveryExit ==
    (new_session /\ entry = "asyncstart" /\ apc \in {"returned", "raised"}) =>
       (closed /\ closeCalls = 1)

\* C11: a session supplied by the caller is never closed, whatever sequence
\* of asyncstart() and download() calls, succeeding or failing, is made.
C11_BorrowedNeverClosed ==
    ~new_session => (~closed /\ closeCalls = 0)

C11_Witness ==
    /\ ~new_session
    /\ entry = "asyncstart"
    /\ apc = "returned"
    /\ run = MaxRuns

\* the fetch tasks that have issued their request
Requested == {i \in DOMAIN workers : workers[i].pc \in {"streaming", "done", "failed"}}

\* C12: the request of the fetch worker of range (start, end) carries the
\* Range header of that worker's own range, replacing the header the shared
\* request options held, for every worker and every interleaving.
C12_OwnRangeHeader ==
    /\ \A i \in Requested : workers[i].req = workers[i].filerange
    /\ \A r \in BagToSet(requests) :
          r.by = "fetch" =>
             CopiesIn(r, requests) =
                Cardinality({i \in Requested : workers[i].filerange = r.Range})

C12_Witness ==
    /\ Len(workers) = 2
    /\ Requested = {1, 2}
    /\ workers[1].filerange # workers[2].filerange
    /\ aiohttp_args.Range = workers[1].filerange
    /\ workers[2].req = workers[2].filerange
    /\ run = 2

\* C13: the request of the single-stream fallback carries no Range header,
\* for every sequence of download() invocations on the same Downloader.
C13_FallbackUnranged ==
    \A r \in BagToSet(requests) : r.by = "fallback" => r.Range = NoRange

\* C14: the transfer configuration (threads, request options with their
\* headers) has, after any sequence of calls, the values it had when
\* construction finished.
C14_ConfigImmutable ==
    aiohttp_args = InitArgs

\* C15: on a successful multi-range download with progress reporting
\* enabled, the byte counts reported to the progress sink sum to length.
C15_ProgressTotal ==
    (SizedSuccess /\ progress_bar) => reported = length

C15_Witness ==
    /\ SizedSuccess
    /\ progress_bar
    /\ threads = 2
    /\ length = MaxLen
    /\ reported = length

\* C16: if a fetch worker raises, download() ends by raising that error: it
\* never returns normally, it can raise as soon as the worker has failed,
\* and no range is requested a second time.
C16_WorkerErrorPropagates ==
    /\ (\E i \in DOMAIN workers : workers[i].pc = "failed") =>
          /\ dpc \in {"gather", "failed"}
          /\ dpc = "gather" => ENABLED GatherRaise
          /\ dpc = "failed" => error = "ClientError"
    /\ IssuedBy("fetch") = Cardinality(Requested)

C16_Witness ==
    /\ path = "sized"
    /\ dpc = "failed"
    /\ error = "ClientError"
    /\ \E i \in DOMAIN workers : workers[i].pc = "failed"
    /\ \E i \in DOMAIN workers : workers[i].pc = "done"

\* C17: if the HEAD probe fails, download() raises that error; the probe is
\* not retried and no ranged or fallback request is issued.
C17_ProbeErrorPropagates ==
    (path = "none" /\ dpc \notin {"idle", "probing"}) =>
       /\ dpc = "failed"
       /\ error \in {"ClientError", "RuntimeError"}
       /\ IssuedBy("probe") = 1
       /\ IssuedBy("fetch") = 0
       /\ IssuedBy("fallback") = 0
       /\ workers = <<>>
       /\ ~presized

C17_Witness ==
    /\ path = "none"
    /\ dpc = "failed"
    /\ error = "ClientError"
    /\ entry = "download"

\* C18: each invocation issues exactly one probe, with method HEAD although
\* the request options configure another method, and no ranged or fallback
\* request is issued while the probe is outstanding.
C18_OneHeadProbe ==
    run >= 1 =>
       /\ IssuedBy("probe") = 1
       /\ \A r \in BagToSet(requests) : r.by = "probe" => r.method = "HEAD"
       /\ aiohttp_args.method # "HEAD"
       /\ dpc = "probing" => (IssuedBy("fetch") = 0 /\ IssuedBy("fallback") = 0)

C18_Witness ==
    /\ run = 2
    /\ SizedSuccess
    /\ IssuedBy("probe") = 1
    /\ IssuedBy("fetch") = 2

\* C19: after a successful fallback download the file holds the body of the
\* response, in arrival order, and nothing else: nothing of what the file
\* held before remains.
C19_FallbackOverwrites ==
    (path = "fallback" /\ dpc = "done") =>
       file = ServerBody(aiohttp_args.Range)

C19_Witness ==
    /\ path = "fallback"
    /\ dpc = "done"
    /\ run = 1
    /\ length = MaxLen
    /\ file = Resource

\* C20: against an unchanged server, the file after two consecutive
\* successful download() invocations equals the file after the first.
C20_RerunSame ==
    (prev.ok /\ dpc = "done" /\ prev.path = path) => file = prev.file

\* C21: new_session is true exactly when no session was passed to the
\* constructor, in the state after construction and in every state any
\* operation of the Downloader leads to.
C21_OwnershipFlag ==
    new_session = ~supplied

C21_Witness ==
    /\ run = MaxRuns
    /\ entry = "asyncstart"
    /\ apc = "returned"
    /\ closed
    /\ new_session
    /\ ~supplied

C28_PresizedBeforeWorkers ==
    /\ workers # <<>> => (path = "sized" /\ presized)
    /\ dpc \in {"probing", "presize", "plan", "fanout"} => workers = <<>>
    /\ dpc \in {"probing", "presize"} => ~presized

C28_Witness ==
    /\ run = 2
    /\ presized
    /\ Len(workers) = 2
    /\ workers[1].pc = "opened"
    /\ workers[2].pc = "streaming"

\* C29: on the sized path download() has returned normally only if every
\* one of its fetch tasks has finished writing and has left fetch().
C29_SuccessAfterWorkers ==
    SizedSuccess =>
       /\ Len(workers) = threads
       /\ \A i \in DOMAIN workers : workers[i].pc = "done"

C29_Witness ==
    /\ SizedSuccess
    /\ Len(workers) = 2
    /\ length = MaxLen
    /\ entry = "asyncstart"
    /\ apc = "returned"

\* the fetch requests of the current invocation for the range rg
FetchRequestsFor(rg) ==
    CopiesIn(Request(aiohttp_args.method, "fetch", rg), requests)

\* the fetch tasks of the current invocation whose range is rg
TasksFor(rg) == {i \in DOMAIN workers : workers[i].filerange = rg}

\* C30: no request is issued twice.  Every invocation issues one HEAD
\* probe.  On the sized path no fallback request is issued, no fetch task
\* issues more than one request, each request carries a Range header, and
\* when the tasks have ended each has issued exactly one, some having
\* failed or not.  On the unsized path no fetch request is issued and one
\* fallback request is, which carries no Range header.
C30_OneRequestEach ==
    run >= 1 =>
       /\ IssuedBy("probe") = 1
       /\ \A r \in BagToSet(requests) : r.by = "probe" => r.method = "HEAD"
       /\ path = "sized" =>
             /\ IssuedBy("fallback") = 0
             /\ IssuedBy("fetch") <= Len(workers)
             /\ \A r \in BagToSet(requests) :
                   r.by = "fetch" => r.Range # NoRange
             /\ \A i \in DOMAIN workers :
                   FetchRequestsFor(workers[i].filerange) <=
                      Cardinality(TasksFor(workers[i].filerange))
             /\ (Launched /\ WorkersFinished) =>
                   /\ IssuedBy("fetch") = Len(ranges)
                   /\ \A i \in DOMAIN ranges :
                         FetchRequestsFor(ranges[i]) =
                            Cardinality(TasksFor(ranges[i]))
       /\ path = "fallback" =>
             /\ IssuedBy("fetch") = 0
             /\ IssuedBy("fallback") = 1
             /\ \A r \in BagToSet(requests) :
                   r.by = "fallback" => r.Range = NoRange

\* the steps of handle(), in the order of its code
StepNames == <<"download", "load", "save">>

\* C23: handle() runs download, load and save in that order; a step runs
\* only if every step before it returned 1; when a step has ended without
\* returning 1, handle() runs no further step and returns -1; handle()
\* returns 1 only when all three steps returned 1.
C23_StepsInOrder ==
    /\ Len(hsteps) <= Len(StepNames)
    /\ \A k \in DOMAIN hsteps : hsteps[k].step = StepNames[k]
    /\ \A k \in DOMAIN hsteps : k < Len(hsteps) => hsteps[k].status = 1
    /\ (hsteps # <<>> /\ hsteps[Len(hsteps)].status # 1) =>
          \/ hpc = "downloaded"
          \/ hpc = "returned" /\ hret = -1
    /\ hpc = "returned" => hret \in {1, -1}
    /\ (hpc = "returned" /\ hret = 1) =>
          /\ Len(hsteps) = Len(StepNames)
          /\ \A k \in DOMAIN hsteps : hsteps[k].status = 1

\* C24: _download() ends by returning a status on every path: 1 when the
\* file was already there or the download ran to its end, -1 otherwise; no
\* exception leaves it.
C24_ReturnsStatus ==
    /\ hpc # "raised"
    /\ hsteps # <<>> =>
          hsteps[1].status = IF run = 0 \/ dpc = "done" THEN 1 ELSE -1

\* C25: when _download() has ended, on whichever path, a session the
\* downloader owns is closed; close() is invoked at most once on it, never
\* when it is already closed, and never on a session that was supplied.
C25_SessionClosedOnce ==
    /\ (hsteps # <<>> /\ new_session) => closed
    /\ closeCalls <= 1
    /\ closeCalls = 1 => closed
    /\ ~new_session => (closeCalls = 0 /\ ~closed)

C25_Witness ==
    /\ hpc = "downloaded"
    /\ run = 2
    /\ entry = "download"
    /\ dstatus = 1
    /\ new_session
    /\ closed
    /\ closeCalls = 1

\* C26: fetch() issues the requests of the layers one after the other in
\* the order of the theme; when a layer's request, parsing or status check
\* raises, fetch() returns -1 and no later layer is requested; when none
\* raises, every layer is processed and fetch() returns what
\* parse_response() returned for the last one, 0 for a theme without layers.
C26_FetchLoop ==
    /\ Len(llog) <= Len(layers)
    /\ \A j \in DOMAIN llog : llog[j].layer = j
    /\ lexc # 0 =>
          /\ lpc = "returned"
          /\ lret = -1
          /\ Len(llog) = lexc
    /\ (lpc = "returned" /\ lexc = 0) =>
          /\ Len(llog) = Len(layers)
          /\ lret = IF layers = <<>> THEN 0 ELSE llog[Len(llog)].result

C26_Witness ==
    /\ Len(layers) = 2
    /\ lpc = "returned"
    /\ lexc = 1
    /\ llog[1].result = 1
    /\ lret = -1

\* C27: for a layer of type GeoTIFF parse_response() constructs and invokes
\* one GeoTiffHandler, for GeoJSON one GeoJSONHandler, and returns what that
\* handler's handle() returned; for any other type it constructs no handler
\* and returns -1.
C27_OneHandler ==
    \A j \in DOMAIN llog :
       /\ Len(llog[j].handlers) <= 1
       /\ \A h \in DOMAIN llog[j].handlers :
             \/ layers[j] = Tiff /\ llog[j].handlers[h] = "GeoTiffHandler"
             \/ layers[j] = GeoJson /\ llog[j].handlers[h] = "GeoJSONHandler"
       /\ llog[j].result # 0 =>
             IF layers[j] \in {Tiff, GeoJson}
             THEN /\ Len(llog[j].handlers) = 1
                  /\ llog[j].hstatus # 0
                  /\ llog[j].result = llog[j].hstatus
             ELSE /\ llog[j].handlers = <<>>
                  /\ llog[j].result = -1

C27_Witness ==
    /\ Len(llog) = 2
    /\ layers[1] = GeoJson
    /\ llog[1].handlers = <<"GeoJSONHandler">>
    /\ llog[1].result = -1
    /\ layers[2] = "text/plain"
    /\ llog[2].handlers = <<>>
    /\ llog[2].result = -1

\* download() of the current invocation has returned or raised
Ended == dpc \in {"done", "failed"}

\* C31: once download() has returned or raised, no step of a task of that
\* invocation changes the destination file or issues a request.
C31_QuietAfterEnd ==
    [][(Ended /\ run' = run) => (file' = file /\ requests' = requests)]_vars

\* the sum of the widths end - start + 1 of the ranges rs
RECURSIVE SumWidths(_)
SumWidths(rs) ==
    IF rs = <<>> THEN 0
    ELSE (Head(rs)[2] - Head(rs)[1] + 1) + SumWidths(Tail(rs))

\* C32 as stated: every planned range ends at or before the last byte of
\* the resource, the widths of the ranges sum to length, and no worker
\* leaves the file longer than length.
C32_WithinResource ==
    /\ Planned =>
          /\ \A i \in DOMAIN ranges : ranges[i][2] <= length - 1
          /\ SumWidths(ranges) = length
    /\ (path = "sized" /\ presized) => Len(file) <= length

\* C32, amended: every planned range ends at or before offset length and
\* the last one ends at length itself, one past the last byte of the
\* resource, so the widths of the ranges sum to length + 1; against a
\* server that clips each span at the end of the resource no worker leaves
\* the file longer than length.
C32_EndsAtLength ==
    /\ Planned =>
          /\ \A i \in DOMAIN ranges : ranges[i][2] <= length
          /\ ranges[Len(ranges)][2] = length
          /\ SumWidths(ranges) = length + 1
    /\ (path = "sized" /\ presized) => Len(file) <= length

C32_Witness ==
    /\ SizedSuccess
    /\ length = MaxLen
    /\ Len(ranges) = 2
    /\ ranges[2][2] = length
    /\ workers[2].sent = length - ranges[2][1]
    /\ Len(file) = length

\* C33: no request is issued on an owned session that has been closed, and
\* an owned session is closed at most once, whatever the sequence of
\* asyncstart() and download() invocations.
C33_NoUseAfterClose ==
    [][/\ (run' # run \/ requests' # requests) => ~(new_session /\ closed)
       /\ closeCalls' <= 1]_vars

\* C34: GeoJSONHandler.handle() ends only by returning 1 or -1, never by
\* an exception, and when it has ended a session the downloader owns is
\* closed.
C34_ReturnsAndCloses ==
    /\ jpc # "raised"
    /\ jpc = "returned" => jret \in {1, -1}
    /\ (jpc \in {"returned", "raised"} /\ new_session) => closed

\* C35: no handler is constructed or invoked for a layer whose response
\* has an HTTP error status.
C35_StatusCheckFirst ==
    \A j \in DOMAIN llog : llog[j].bad => llog[j].handlers = <<>>

\* C36: fetch() returns 1 only if every layer of the theme was processed
\* and parse_response() returned 1 for each of them.
C36_NoMasking ==
    (lpc = "returned" /\ lret = 1) =>
       /\ Len(llog) = Len(layers)
       /\ \A j \in DOMAIN llog : llog[j].result = 1
====
